---- MODULE Spec2Model ----
(***************************************************************************)
(* The lines-around-directive rule (lib/rules/lines-around-directive.js). *)
(*                                                                         *)
(* A rule instance is built by create(context): it resolves its options   *)
(* into `mode` once, and returns four handlers (Program,                   *)
(* FunctionDeclaration, FunctionExpression, ArrowFunctionExpression), all  *)
(* of them checkDirectives.  The traversal driver calls a handler with a   *)
(* scope node; the handler reads the node, asks sourceCode for the         *)
(* trailing comments of the directive and the token after it, and calls    *)
(* context.report zero or more times.                                      *)
(*                                                                         *)
(* JavaScript values are modelled as records.  A property that is          *)
(* undefined in JavaScript is a field that the record does not have        *)
(* (leadingComments); null, undefined and a thrown TypeError are the       *)
(* records Null, Undefined and TypeError.                                  *)
(***************************************************************************)
EXTENDS Integers, Sequences, FiniteSets, TLC

\* ------------------------------------------------------------------ bounds

\* Largest number of statements in a scope's body.
MaxBody == 2
\* Largest number of comments in a leading or a trailing comment list.
MaxComments == 2
\* Largest line distance between the directive and the nearest comment or
\* token on either side.
MaxGap == 2
\* Largest number of handler calls in one traversal (SpecTraversal).
MaxVisits == 2

\* ------------------------------------------------------- JavaScript values

Null == [type |-> "null"]
Undefined == [type |-> "undefined"]
TypeError == [type |-> "TypeError"]

Loc(startLine, endLine) ==
    [start |-> [line |-> startLine], end |-> [line |-> endLine]]

\* ------------------------------------------------------------ the variables

VARIABLES
    options,     \* context.options: <<>> or <<config>>
    mode,        \* the closure's resolved policy {before, after}
    node,        \* the scope node of the latest handler call (NoNode: none yet)
    sourceCode,  \* what sourceCode answers about that node's first statement
    reports,     \* every context.report call so far, in order
    emitted,     \* how many of them the latest handler call made
    thrown,      \* the latest handler call ended by throwing a TypeError
    visits       \* handler calls so far

vars == <<options, mode, node, sourceCode, reports, emitted, thrown, visits>>

NoNode == [type |-> "none"]
NoSource == [trailing |-> <<>>, tokenAfter |-> Null]

\* ------------------------------------------------------------ the rule

\* A configuration value as the schema admits it: a string, or an object
\* with both keys.  typeof is kept as a field.
String(s) == [typeof |-> "string", value |-> s]
Object(b, a) == [typeof |-> "object", before |-> b, after |-> a]

\* generateMode filling `after` of a bare mode with the default.
generateMode_afterAlways(config) ==
    IF config.typeof = "string"
    THEN [before |-> config.value, after |-> "always"]
    ELSE [before |-> config.before, after |-> config.after]

\* generateMode(config)
generateMode(config) ==
    IF config.typeof = "string"
    THEN [before |-> config.value, after |-> config.value]
    ELSE IF config.typeof = "object"
    THEN [before |-> config.before, after |-> config.after]
    ELSE Undefined

\* The default taken to be "never".
config_defaultNever(opts) ==
    IF Len(opts) >= 1 THEN opts[1] ELSE String("never")

\* const config = context.options[0] || "always";
config(opts) ==
    IF Len(opts) >= 1 THEN opts[1] ELSE String("always")

\* const mode = generateMode(config);
create(opts) == generateMode(config(opts))

\* The test without its third conjunct: any literal statement passes.
isNodeUseStrictDirective_anyLiteral(stmt) ==
    /\ stmt.type = "ExpressionStatement"
    /\ stmt.expression.type = "Literal"

\* isNodeUseStrictDirective(node), for a node that is not undefined; the
\* conjunction reads node.expression only of an ExpressionStatement and
\* .value only of a Literal, as && does.
isNodeUseStrictDirective(stmt) ==
    /\ stmt.type = "ExpressionStatement"
    /\ stmt.expression.type = "Literal"
    /\ stmt.expression.value = "use strict"

\* getUseStrictDirective(body): body[0] of an empty array is undefined, and
\* isNodeUseStrictDirective reads .type of it, which throws a TypeError.
getUseStrictDirective(body) ==
    LET firstStatement == IF Len(body) >= 1 THEN body[1] ELSE Undefined
    IN  IF firstStatement = Undefined
        THEN TypeError
        ELSE IF isNodeUseStrictDirective(firstStatement)
        THEN firstStatement
        ELSE Null

\* hasNewlineBefore measuring against comments[0].
hasNewlineBefore_firstComment(stmt, comments) ==
    LET comment == comments[1]
    IN  stmt.loc.start.line - comment.loc.end.line >= 2

\* hasNewlineBefore(node, comments)
hasNewlineBefore(stmt, comments) ==
    LET comment == comments[Len(comments)]
    IN  stmt.loc.start.line - comment.loc.end.line >= 2

\* The reference element taken to be the next token always.
tokenAfter_ignoresComments(sc) == sc.tokenAfter

\* const tokenAfter = trailingComments.length ? trailingComments[0]
\*                                            : sourceCode.getTokenAfter(node);
tokenAfter(sc) ==
    LET trailingComments == sc.trailing
    IN  IF Len(trailingComments) # 0
        THEN trailingComments[1]
        ELSE sc.tokenAfter

\* hasNewlineAfter(node): sc is what sourceCode answers about node.
hasNewlineAfter(stmt, sc) ==
    tokenAfter(sc).loc.start.line - stmt.loc.end.line >= 2

\* When there is no trailing comment and no token after the node,
\* getTokenAfter returns null and hasNewlineAfter throws reading .loc of it.
hasNewlineAfterThrows(sc) == tokenAfter(sc) = Null

\* reportError(node, location, expected): one context.report call, appended
\* to the calls rs made so far.
reportError(rs, stmt, location, expected) ==
    Append(rs, [node |-> stmt.id,
                message |-> "{{expected}} newline {{location}} 'use strict' directive.",
                data |-> [expected |-> IF expected THEN "Expected" ELSE "Unexpected",
                          location |-> location]])

\* How a call ends: the context.report calls it made, and whether it threw.
Return(rs) == [reports |-> rs, thrown |-> FALSE]
Throw(rs) == [reports |-> rs, thrown |-> TRUE]

\* if (leadingComments && leadingComments.length): an undefined property is
\* a field the record does not have.
hasLeadingComments(directive) ==
    /\ "leadingComments" \in DOMAIN directive
    /\ Len(directive.leadingComments) # 0

\* The `before` statements without the guard on leadingComments: a directive
\* without leading comments counts as having no blank line before it.
checkBefore_ungated(rs, directive) ==
    IF hasLeadingComments(directive)
    THEN LET leadingComments == directive.leadingComments
             r1 == IF mode.before = "always"
                      /\ ~hasNewlineBefore(directive, leadingComments)
                   THEN reportError(rs, directive, "before", TRUE)
                   ELSE rs
         IN  IF mode.before = "never"
                /\ hasNewlineBefore(directive, leadingComments)
             THEN reportError(r1, directive, "before", FALSE)
             ELSE r1
    ELSE IF mode.before = "always"
    THEN reportError(rs, directive, "before", TRUE)
    ELSE rs

\* The two `before` statements of checkDirectives, after the reports rs.
checkBefore(rs, directive) ==
    IF hasLeadingComments(directive)
    THEN LET leadingComments == directive.leadingComments
             r1 == IF mode.before = "always"
                      /\ ~hasNewlineBefore(directive, leadingComments)
                   THEN reportError(rs, directive, "before", TRUE)
                   ELSE rs
         IN  IF mode.before = "never"
                /\ hasNewlineBefore(directive, leadingComments)
             THEN reportError(r1, directive, "before", FALSE)
             ELSE r1
    ELSE rs

\* The comparison with body[body.length], which is undefined.
isLastStatement_offByOne(directive, body) ==
    directive = Undefined

\* if (directive === body[body.length - 1]): the same object, not an equal one.
isLastStatement(directive, body) ==
    directive.id = body[Len(body)].id

\* The `after` statements made to run only when nothing was reported yet.
checkAfter_onlyIfClean(rs, directive, sc) ==
    IF Len(rs) # 0
    THEN Return(rs)
    ELSE IF mode.after = "always"
    THEN IF hasNewlineAfterThrows(sc)
         THEN Throw(rs)
         ELSE IF ~hasNewlineAfter(directive, sc)
         THEN Return(reportError(rs, directive, "after", TRUE))
         ELSE Return(rs)
    ELSE IF mode.after = "never"
    THEN IF hasNewlineAfterThrows(sc)
         THEN Throw(rs)
         ELSE IF hasNewlineAfter(directive, sc)
         THEN Return(reportError(rs, directive, "after", FALSE))
         ELSE Return(rs)
    ELSE Return(rs)

\* The two `after` statements of checkDirectives, after the reports rs.  A
\* statement whose mode does not match does not call hasNewlineAfter.
checkAfter(rs, directive, sc) ==
    IF mode.after = "always"
    THEN IF hasNewlineAfterThrows(sc)
         THEN Throw(rs)
         ELSE IF ~hasNewlineAfter(directive, sc)
         THEN Return(reportError(rs, directive, "after", TRUE))
         ELSE Return(rs)
    ELSE IF mode.after = "never"
    THEN IF hasNewlineAfterThrows(sc)
         THEN Throw(rs)
         ELSE IF hasNewlineAfter(directive, sc)
         THEN Return(reportError(rs, directive, "after", FALSE))
         ELSE Return(rs)
    ELSE Return(rs)

\* if (node.type === "ArrowFunctionExpression" && node.body.type !== "BlockStatement")
isImplicitReturnArrow(n) ==
    /\ n.type = "ArrowFunctionExpression"
    /\ n.body.type # "BlockStatement"

\* const body = node.type === "Program" ? node.body : node.body.body;
bodyOf(n) ==
    IF n.type = "Program" THEN n.body ELSE n.body.body

\* checkDirectives(node): how the call ends.
checkDirectives(n, sc) ==
    IF isImplicitReturnArrow(n)
    THEN Return(<<>>)
    ELSE LET body == bodyOf(n)
             directive == getUseStrictDirective(body)
         IN  IF directive = TypeError
             THEN Throw(<<>>)
             ELSE IF directive = Null
             THEN Return(<<>>)
             ELSE LET rs == checkBefore(<<>>, directive)
                  IN  IF isLastStatement(directive, body)
                      THEN Return(rs)
                      ELSE checkAfter(rs, directive, sc)

\* ------------------------------------------------- the scopes handed over

\* A comment or a token, of which the rule reads only loc.
Comment(startLine, endLine) == [type |-> "Block", loc |-> Loc(startLine, endLine)]
Token(line) == [type |-> "Punctuator", loc |-> Loc(line, line)]

\* The line the first statement of a body starts on: room above it for
\* MaxComments comments, the last of them two lines long, and MaxGap lines.
FirstLine == MaxGap + MaxComments + 1

\* The statements a body is made of, each with its place in the file.  Two
\* statements of one kind are equal but for id, which stands for the
\* object's identity.
Statement(kind, id, loc) ==
    CASE kind = "directive" ->
           [id |-> id, type |-> "ExpressionStatement", loc |-> loc,
            expression |-> [type |-> "Literal", value |-> "use strict"]]
      [] kind = "literal" ->
           [id |-> id, type |-> "ExpressionStatement", loc |-> loc,
            expression |-> [type |-> "Literal", value |-> "use asm"]]
      [] kind = "expression" ->
           [id |-> id, type |-> "ExpressionStatement", loc |-> loc,
            expression |-> [type |-> "Identifier", name |-> "foo"]]
      [] kind = "declaration" ->
           [id |-> id, type |-> "VariableDeclaration", loc |-> loc]

\* The same with the leadingComments property the parser sets when it
\* attaches comments to the statement.
CommentedStatement(kind, id, loc, comments) ==
    CASE kind = "directive" ->
           [id |-> id, type |-> "ExpressionStatement", loc |-> loc,
            leadingComments |-> comments,
            expression |-> [type |-> "Literal", value |-> "use strict"]]
      [] kind = "literal" ->
           [id |-> id, type |-> "ExpressionStatement", loc |-> loc,
            leadingComments |-> comments,
            expression |-> [type |-> "Literal", value |-> "use asm"]]
      [] kind = "expression" ->
           [id |-> id, type |-> "ExpressionStatement", loc |-> loc,
            leadingComments |-> comments,
            expression |-> [type |-> "Identifier", name |-> "foo"]]
      [] kind = "declaration" ->
           [id |-> id, type |-> "VariableDeclaration", loc |-> loc,
            leadingComments |-> comments]

\* k leading comments, source order, the last one ending d lines above the
\* line `first` and two lines long when multi; the earlier ones one line
\* each, right above it.
LeadingComments(k, d, multi, first) ==
    LET lastEnd == first - d
        lastStart == IF multi THEN lastEnd - 1 ELSE lastEnd
    IN  [i \in 1..k |-> IF i = k
                        THEN Comment(lastStart, lastEnd)
                        ELSE Comment(lastStart - (k - i), lastStart - (k - i))]

\* k trailing comments, source order, the first one starting d lines below
\* the line `last`, the later ones on the lines after it.
TrailingComments(k, d, last) ==
    [i \in 1..k |-> Comment(last + d + (i - 1), last + d + (i - 1))]

\* The dimensions a set of scopes ranges over.  Full: every kind of first
\* statement; bodies of 0, 1 and MaxBody statements; comment lists of 0, 1
\* and MaxComments comments; every distance up to MaxGap.  Sample: two
\* scopes' worth of the cases that tell the outcomes of a call apart.
Full ==
    [ids |-> {1},
     firstKinds |-> {"directive", "literal", "expression", "declaration"},
     restKinds |-> {"directive", "declaration"},
     lengths |-> {0, 1, MaxBody},
     heights |-> {0, 1},
     leadCounts |-> {0, 1, MaxComments},
     trailCounts |-> {0, 1, MaxComments},
     multis |-> BOOLEAN,
     gaps |-> 0..MaxGap,
     tokenOffsets |-> {0, MaxGap}]

Sample ==
    [ids |-> {1, 2},
     firstKinds |-> {"directive", "declaration"},
     restKinds |-> {"declaration"},
     lengths |-> {0, 1, 2},
     heights |-> {0},
     leadCounts |-> {1},
     trailCounts |-> {0},
     multis |-> {FALSE},
     gaps |-> {1, 2},
     tokenOffsets |-> {0}]

\* The bodies, as sequences of kinds: a first statement of any kind, then
\* statements of one kind.
Bodies(D) ==
    {IF n = 0 THEN <<>> ELSE <<f>> \o [i \in 1..(n - 1) |-> r]
       : n \in D.lengths, f \in D.firstKinds, r \in D.restKinds}

\* What the body of a scope is: a block of statements or, for an arrow
\* function only, an expression.
Shapes(type, D) ==
    {[block |-> TRUE, kinds |-> ks] : ks \in Bodies(D)}
    \cup (IF type = "ArrowFunctionExpression"
          THEN {[block |-> FALSE, expression |-> e]
                  : e \in {[type |-> "Literal", value |-> "use strict"],
                           [type |-> "Identifier", name |-> "foo"]}}
          ELSE {})

\* How a first statement is laid out: h lines below its first line; no
\* leadingComments property, or k comments d lines above it; k trailing
\* comments d lines below it, and the next token t lines below them.
Leadings(D) ==
    {[defined |-> FALSE, k |-> 0, d |-> 0, multi |-> FALSE]}
    \cup {[defined |-> TRUE, k |-> k, d |-> d, multi |-> m]
            : k \in D.leadCounts, d \in D.gaps, m \in D.multis}

Trailings(D) ==
    {[k |-> k, d |-> d, t |-> IF k = 0 THEN 0 ELSE t]
       : k \in D.trailCounts, d \in D.gaps, t \in D.tokenOffsets}

\* The first statement of a body and, when the parser attached any, its
\* leading comments.
FirstStatement(kind, id, h, lead) ==
    IF lead.defined
    THEN CommentedStatement(kind, id, Loc(FirstLine, FirstLine + h),
                            LeadingComments(lead.k, lead.d, lead.multi, FirstLine))
    ELSE Statement(kind, id, Loc(FirstLine, FirstLine + h))

\* The line of the next token after a first statement that ends on line
\* `last`: after the trailing comments.
TokenLine(last, trail) ==
    last + trail.d + (IF trail.k > 0 THEN (trail.k - 1) + trail.t ELSE 0)

\* What sourceCode answers about that statement: getComments(node).trailing
\* and getTokenAfter(node), which is null when nothing follows but comments.
SourceCode(last, hasToken, trail) ==
    [trailing |-> TrailingComments(trail.k, trail.d, last),
     tokenAfter |-> IF hasToken THEN Token(TokenLine(last, trail)) ELSE Null]

\* The statements of kinds ks in scope id.  The second statement starts
\* with the token after the first, the later ones follow line by line.
StatementList(ks, id, h, lead, trail) ==
    [i \in 1..Len(ks) |->
       IF i = 1
       THEN FirstStatement(ks[1], <<id, 1>>, h, lead)
       ELSE Statement(ks[i], <<id, i>>,
                      Loc(TokenLine(FirstLine + h, trail) + (i - 2),
                          TokenLine(FirstLine + h, trail) + (i - 2)))]

\* A scope with what sourceCode answers about its first statement.  In a
\* Program a sole statement has no token after it; in a function the
\* closing brace follows.  A scope without a first statement has no layout.
Scope(type, id, shape, h, lead, trail) ==
    IF ~shape.block
    THEN [node |-> [id |-> id, type |-> type, body |-> shape.expression],
          sc |-> NoSource]
    ELSE LET list == StatementList(shape.kinds, id, h, lead, trail)
         IN  [node |-> [id |-> id, type |-> type,
                        body |-> IF type = "Program"
                                 THEN list
                                 ELSE [type |-> "BlockStatement", body |-> list]],
              sc |-> IF Len(list) = 0
                     THEN NoSource
                     ELSE SourceCode(FirstLine + h,
                                     ~(type = "Program" /\ Len(list) = 1), trail)]

\* The scopes of one node type a handler may be called with.
Scopes(type, D) ==
    {Scope(type, id, shape, h, lead, trail)
       : id \in D.ids, shape \in Shapes(type, D), h \in D.heights,
         lead \in Leadings(D), trail \in Trailings(D)}

\* ------------------------------------------------------------ the machine

Modes == {"always", "never"}

\* context.options as the schema admits it: nothing, a mode, or an object
\* with both keys.
Options ==
    {<<>>} \cup {<<String(m)>> : m \in Modes}
           \cup {<<Object(b, a)>> : b \in Modes, a \in Modes}

\* The state create(context) leaves: the options resolved, nothing visited.
Init ==
    /\ options \in Options
    /\ mode = create(options)
    /\ node = NoNode
    /\ sourceCode = NoSource
    /\ reports = <<>>
    /\ emitted = 0
    /\ thrown = FALSE
    /\ visits = 0

\* A handler call that rewrites the closure's policy as it reports.
Visit_writesMode(s) ==
    LET r == checkDirectives(s.node, s.sc)
    IN  /\ node' = s.node
        /\ sourceCode' = s.sc
        /\ reports' = reports \o r.reports
        /\ emitted' = Len(r.reports)
        /\ thrown' = r.thrown
        /\ visits' = visits + 1
        /\ mode' = IF Len(r.reports) > 0
                   THEN [before |-> "never", after |-> "never"]
                   ELSE mode
        /\ UNCHANGED options

\* One handler call, checkDirectives(node) on the scope s: context.report
\* collects what it reports; nothing of the closure is written.
Visit(s) ==
    LET r == checkDirectives(s.node, s.sc)
    IN  /\ node' = s.node
        /\ sourceCode' = s.sc
        /\ reports' = reports \o r.reports
        /\ emitted' = Len(r.reports)
        /\ thrown' = r.thrown
        /\ visits' = visits + 1
        /\ UNCHANGED <<options, mode>>

\* The four handlers, called with the first scope a rule instance sees.
Program ==
    /\ visits = 0
    /\ \E s \in Scopes("Program", Full) : Visit(s)

FunctionDeclaration ==
    /\ visits = 0
    /\ \E s \in Scopes("FunctionDeclaration", Full) : Visit(s)

FunctionExpression ==
    /\ visits = 0
    /\ \E s \in Scopes("FunctionExpression", Full) : Visit(s)

ArrowFunctionExpression ==
    /\ visits = 0
    /\ \E s \in Scopes("ArrowFunctionExpression", Full) : Visit(s)

Next ==
    \/ Program
    \/ FunctionDeclaration
    \/ FunctionExpression
    \/ ArrowFunctionExpression

Spec == Init /\ [][Next]_vars

\* The four handlers in a traversal: up to MaxVisits calls in any order on
\* one rule instance, until one throws (the exception ends the run).
TraverseProgram ==
    /\ visits < MaxVisits /\ ~thrown
    /\ \E s \in Scopes("Program", Sample) : Visit(s)

TraverseFunctionDeclaration ==
    /\ visits < MaxVisits /\ ~thrown
    /\ \E s \in Scopes("FunctionDeclaration", Sample) : Visit(s)

TraverseFunctionExpression ==
    /\ visits < MaxVisits /\ ~thrown
    /\ \E s \in Scopes("FunctionExpression", Sample) : Visit(s)

TraverseArrowFunctionExpression ==
    /\ visits < MaxVisits /\ ~thrown
    /\ \E s \in Scopes("ArrowFunctionExpression", Sample) : Visit(s)

NextTraversal ==
    \/ TraverseProgram
    \/ TraverseFunctionDeclaration
    \/ TraverseFunctionExpression
    \/ TraverseArrowFunctionExpression

SpecTraversal == Init /\ [][NextTraversal]_vars

\* ------------------------------------------------------------ the claims
\* The properties are stated over the latest handler call: the scope it was
\* given (node, sourceCode), the policy, and the reports it made.

\* The reports of the latest handler call.
Emitted == SubSeq(reports, Len(reports) - emitted + 1, Len(reports))

\* The latest call was given an arrow function with an expression body.
ImplicitReturn ==
    /\ visits > 0
    /\ node.type = "ArrowFunctionExpression"
    /\ node.body.type # "BlockStatement"

\* The statements of the scope of the latest call.
Statements ==
    IF visits = 0 \/ ImplicitReturn THEN <<>>
    ELSE IF node.type = "Program" THEN node.body ELSE node.body.body

IsUseStrict(stmt) ==
    /\ stmt.type = "ExpressionStatement"
    /\ stmt.expression.type = "Literal"
    /\ stmt.expression.value = "use strict"

\* The scope of the latest call starts with the directive.
DirectiveFirst == Len(Statements) >= 1 /\ IsUseStrict(Statements[1])

\* The leading comments of the first statement (none when the property is
\* absent).
Leading ==
    IF Len(Statements) >= 1 /\ "leadingComments" \in DOMAIN Statements[1]
    THEN Statements[1].leadingComments
    ELSE <<>>

\* The latest call reported `expected` newline `location`.
Said(expected, location) ==
    \E i \in DOMAIN Emitted :
        Emitted[i].data = [expected |-> expected, location |-> location]

\* How many reports of the latest call are about `location`.
Count(location) ==
    Cardinality({i \in DOMAIN Emitted : Emitted[i].data.location = location})

\* The line distances of the two sides.
DistanceBefore ==
    Statements[1].loc.start.line - Leading[Len(Leading)].loc.end.line

DistanceAfter ==
    LET reference == IF Len(sourceCode.trailing) > 0
                     THEN sourceCode.trailing[1]
                     ELSE sourceCode.tokenAfter
    IN  reference.loc.start.line - Statements[1].loc.end.line

\* C1: when the directive is first and not last, the `after` distance d is
\* measured to the first trailing comment if there is one and to the next
\* token otherwise; "Expected newline after" is reported iff after = always
\* and d < 2, "Unexpected newline after" iff after = never and d >= 2.
C1_AfterSpacing ==
    (DirectiveFirst /\ Len(Statements) > 1) =>
        /\ Said("Expected", "after") <=> (mode.after = "always" /\ DistanceAfter < 2)
        /\ Said("Unexpected", "after") <=> (mode.after = "never" /\ DistanceAfter >= 2)

\* A trailing comment on the line below the directive, the next token three
\* lines below it, and "Expected newline after" reported.
C1_Witness ==
    /\ DirectiveFirst /\ Len(Statements) > 1
    /\ Len(sourceCode.trailing) > 0
    /\ DistanceAfter = 1
    /\ sourceCode.tokenAfter.loc.start.line - Statements[1].loc.end.line >= 2
    /\ Said("Expected", "after")

\* C2: when the directive is first and has leading comments, the `before`
\* distance d is measured from the end line of the last leading comment;
\* "Expected newline before" is reported iff before = always and d < 2,
\* "Unexpected newline before" iff before = never and d >= 2.
C2_BeforeSpacing ==
    (DirectiveFirst /\ Len(Leading) > 0) =>
        /\ Said("Expected", "before") <=> (mode.before = "always" /\ DistanceBefore < 2)
        /\ Said("Unexpected", "before") <=> (mode.before = "never" /\ DistanceBefore >= 2)

\* Two leading comments, the last of them two lines long and ending right
\* above the directive, the first one further up, and "Expected newline
\* before" reported.
C2_Witness ==
    /\ DirectiveFirst /\ Len(Leading) = 2
    /\ Leading[2].loc.start.line < Leading[2].loc.end.line
    /\ DistanceBefore = 1
    /\ Statements[1].loc.start.line - Leading[1].loc.end.line >= 2
    /\ Said("Expected", "before")

\* C3: a directive with an empty or absent leading-comment list gets no
\* `before` report, whatever the policy.
C3_NoBeforeWithoutComments ==
    (DirectiveFirst /\ Len(Leading) = 0) => Count("before") = 0

\* A directive with an empty leadingComments list under before = always,
\* checked on its other side: an `after` report was made.
C3_Witness ==
    /\ DirectiveFirst
    /\ "leadingComments" \in DOMAIN Statements[1] /\ Len(Leading) = 0
    /\ mode.before = "always"
    /\ Count("after") = 1

\* C4: a directive that is the last statement of its body gets no `after`
\* report, whatever the policy and whatever follows it.
C4_NoAfterWhenLast ==
    (DirectiveFirst /\ Len(Statements) = 1) => Count("after") = 0

\* A sole directive with a trailing comment on the next line under
\* after = always, checked on its other side: a `before` report was made.
C4_Witness ==
    /\ DirectiveFirst /\ Len(Statements) = 1
    /\ mode.after = "always"
    /\ Len(sourceCode.trailing) > 0 /\ DistanceAfter = 1
    /\ Count("before") = 1

\* C5: an arrow function with an expression body, and a scope whose first
\* statement is not the "use strict" literal statement, get no report.
C5_SkipRules ==
    (ImplicitReturn \/ (Len(Statements) >= 1 /\ ~IsUseStrict(Statements[1]))) =>
        emitted = 0 /\ ~thrown

\* A body whose first statement is the literal "use asm", with a comment
\* right above it under before = always, and the directive second.
C5_Witness ==
    /\ Len(Statements) = 2
    /\ Statements[1].type = "ExpressionStatement"
    /\ Statements[1].expression.type = "Literal"
    /\ ~IsUseStrict(Statements[1]) /\ IsUseStrict(Statements[2])
    /\ Len(Leading) > 0 /\ DistanceBefore = 1
    /\ mode = [before |-> "always", after |-> "always"]
    /\ emitted = 0

\* C6: getUseStrictDirective answers for every body, the empty one too, and
\* checkDirectives never ends in a fault: a call on a scope without a
\* directive ends without a throw and without a report.
C6_NoFault ==
    (visits > 0 /\ ~DirectiveFirst) => (~thrown /\ emitted = 0)

\* The two sides disagree with the policy.
BeforeMismatch ==
    /\ DirectiveFirst /\ Len(Leading) > 0
    /\ \/ mode.before = "always" /\ DistanceBefore < 2
       \/ mode.before = "never" /\ DistanceBefore >= 2

AfterMismatch ==
    /\ DirectiveFirst /\ Len(Statements) > 1
    /\ \/ mode.after = "always" /\ DistanceAfter < 2
       \/ mode.after = "never" /\ DistanceAfter >= 2

\* C7: one call makes at most one `before` and at most one `after` report,
\* each anchored at the directive (the first statement of the scope), a
\* `before` report ahead of an `after` report; the `after` report is made
\* exactly when the `after` side mismatches, whether or not a `before`
\* report was made, so both are made when both sides mismatch.
C7_OnePerSide ==
    /\ Count("before") <= 1
    /\ Count("after") <= 1
    /\ emitted = Count("before") + Count("after")
    /\ \A i \in DOMAIN Emitted : Emitted[i].node = Statements[1].id
    /\ \A i, j \in DOMAIN Emitted :
         (Emitted[i].data.location = "before" /\ Emitted[j].data.location = "after")
            => i < j
    /\ visits > 0 => (Count("after") = 1 <=> AfterMismatch)
    /\ (BeforeMismatch /\ AfterMismatch) => emitted = 2

\* Both sides mismatch and both reports were made, `before` first.
C7_Witness ==
    /\ BeforeMismatch /\ AfterMismatch
    /\ emitted = 2
    /\ Emitted[1].data.location = "before"
    /\ Emitted[2].data.location = "after"

\* The report the contract asks for.
Diagnostic(stmt, expected, location) ==
    [node |-> stmt.id,
     message |-> "{{expected}} newline {{location}} 'use strict' directive.",
     data |-> [expected |-> expected, location |-> location]]

\* The reports the contract asks of a call under `policy` on the scope of
\* the latest call.
ExpectedBefore(policy) ==
    IF Len(Leading) = 0 THEN <<>>
    ELSE IF policy.before = "always" /\ DistanceBefore < 2
    THEN <<Diagnostic(Statements[1], "Expected", "before")>>
    ELSE IF policy.before = "never" /\ DistanceBefore >= 2
    THEN <<Diagnostic(Statements[1], "Unexpected", "before")>>
    ELSE <<>>

ExpectedAfter(policy) ==
    IF Len(Statements) = 1 THEN <<>>
    ELSE IF policy.after = "always" /\ DistanceAfter < 2
    THEN <<Diagnostic(Statements[1], "Expected", "after")>>
    ELSE IF policy.after = "never" /\ DistanceAfter >= 2
    THEN <<Diagnostic(Statements[1], "Unexpected", "after")>>
    ELSE <<>>

Expected(policy) ==
    IF DirectiveFirst THEN ExpectedBefore(policy) \o ExpectedAfter(policy) ELSE <<>>

\* C8: a rule configured with the bare mode m has the policy of a rule
\* configured with {before: m, after: m}, both fields m, and reports what
\* that policy asks for.
C8_BareModeSymmetry ==
    \A m \in Modes :
        options = <<String(m)>> =>
            /\ mode = [before |-> m, after |-> m]
            /\ mode = generateMode(Object(m, m))
            /\ Emitted = Expected([before |-> m, after |-> m])

\* The bare mode "never": a blank line on both sides, both reported.
C8_Witness ==
    /\ options = <<String("never")>>
    /\ emitted = 2
    /\ Said("Unexpected", "before") /\ Said("Unexpected", "after")

\* C9: a rule without options has the policy {before: always, after:
\* always}, the policy of a rule configured with "always", and reports what
\* that policy asks for.
C9_DefaultAlways ==
    options = <<>> =>
        /\ mode = [before |-> "always", after |-> "always"]
        /\ mode = generateMode(String("always"))
        /\ Emitted = Expected([before |-> "always", after |-> "always"])

\* No options: no blank line on either side, both reported.
C9_Witness ==
    /\ options = <<>>
    /\ emitted = 2
    /\ Said("Expected", "before") /\ Said("Expected", "after")

\* The policy the options resolve to.
Resolved ==
    IF options = <<>> THEN [before |-> "always", after |-> "always"]
    ELSE IF options[1].typeof = "string"
    THEN [before |-> options[1].value, after |-> options[1].value]
    ELSE [before |-> options[1].before, after |-> options[1].after]

\* C10: through any sequence of handler calls on one rule instance the
\* policy stays the one resolved at construction; the reports of a call are
\* those the policy asks for on the scope of that call, whatever was visited
\* before; and every report of a call is anchored in the scope of that call.
C10_Stateless ==
    /\ mode = Resolved
    /\ Emitted = Expected(Resolved)
    /\ \A i \in DOMAIN Emitted : Emitted[i].node[1] = node.id
    /\ Len(reports) >= emitted

\* A second call that reported on scope 2 after a first call that reported
\* on scope 1.
C10_Witness ==
    /\ visits = 2
    /\ emitted > 0 /\ Len(reports) > emitted
    /\ node.id = 2
    /\ reports[1].node[1] = 1

====
